---- MODULE Spec2Model ----
(***************************************************************************)
(* A model of extendo's client pool (client_pool.go) and of the client     *)
(* supervisor's I/O goroutines (client.go).                                *)
(*                                                                         *)
(* Spec        the pool: callers running Get/Return/Close against the      *)
(*             pool, the reaper goroutine, and the passing of time.        *)
(* ClientSpec  one client: Start, its writer, reader and watcher           *)
(*             goroutines, the worker process, execute and Stop.           *)
(* FairClientSpec  ClientSpec with the goroutines scheduled fairly and     *)
(*             the worker exiting once its stdin is closed.                *)
(* CrashSpec   Spec with workers that may exit on their own.               *)
(* AgainSpec   the pool's Get and Return, with a client returned twice.    *)
(***************************************************************************)
EXTENDS Integers, Sequences, FiniteSets, TLC

(***************************************************************************)
(* Bounds and pool parameters                                              *)
(***************************************************************************)
\* ClientPoolParams.MaxSize
maxSize == 2
\* ClientPoolParams.GetMaxRetries
getMaxRetries == 2
\* The number of workers FindAndStart can spawn in one run of the model.
MaxSpawn == 3

\* The number of requests a caller passes to execute on the client.
MaxRequests == 2
\* The number of lines the worker writes to stdout that answer no request.
MaxUnsolicited == 1
\* The number of lines the worker writes to stderr.
MaxStderr == 1
\* The number of times Stop is called on the client.
MaxStops == 2
\* The number of times the client is started.
MaxStarts == 2

\* The goroutines that call Get, Return and Close.
Callers == {"g1", "g2"}
ClientIds == 1..MaxSpawn
\* No client (a nil *Client).
Nil == 0
\* uint8 arithmetic.
Uint8(n) == n % 256

VARIABLES
    isOpen,        \* pool.isOpen
    clients,       \* pool.clients: the idle stack, top last
    numClients,    \* pool.numClients (uint8)
    spawned,       \* how many workers FindAndStart has started; their ids are 1..spawned
    isRunning,     \* client.isRunning, per client
    tooOld,        \* per client: time.Since(startTime) > pool.maxClientRuntime
    tooIdle,       \* per client: time.Since(activityTime) > pool.maxClientIdleTime
    crashed,       \* the running clients whose worker process has exited on its own
    pc,            \* per caller: where it is in Get
    try,           \* per caller: the loop variable of getWithRetries
    got,           \* per caller: the client getWithTimeout returned
    held,          \* per client: how many callers Get has handed it to that have not yet
                   \* passed it to Return
    afterClose,    \* per caller, during Get: the pool was closed when Get was called
    ret,           \* per caller: the error the last completed call returned
    reaperPc,      \* the checkClients goroutine: "running" or "done"
    \* One client and its worker process (ClientSpec)
    started,       \* Start has run
    pid,           \* client.pid: 0 until Start has spawned a worker
    startRet,      \* the error the last call of Start returned
    activityTime,  \* client.activityTime: 0 is the zero time, n the time of request n
    prevWatchPc,   \* the watcher goroutine of the run before the last Start
    running,       \* client.isRunning
    ctxDone,       \* cancelCtx is cancelled (client.cancel has been called)
    stdin,         \* the worker's stdin pipe: the requests written, not yet read
    stdinClosed,   \* stdin.Close has been called
    stdout,        \* the worker's stdout pipe: the lines written, not yet read
    stderr,        \* the worker's stderr pipe: the number of lines not yet read
    worker,        \* the worker process: "none", "running", "exited"
    exitErr,       \* the worker's exit status, as cmd.Wait reports it
    unsolicited,   \* history: the lines on stdout that answered no request
    stderrLines,   \* history: the lines written to stderr
    inPc,          \* the writer goroutine
    outPc,         \* the stdout reader goroutine
    outLine,       \* the line the stdout reader has read and not yet sent
    errPc,         \* the stderr reader goroutine
    watchPc,       \* the watcher goroutine
    perr,          \* the watcher's perr: what cmd.Wait returned
    errChan,       \* client.err: the values buffered in the channel
    errClosed,     \* client.err is closed
    stopPc,        \* the caller of Stop: "idle" or "recv"
    stopResults,   \* what the calls of Stop returned, in order
    execPc,        \* the caller of execute: "idle", "send" or "wait"
    request,       \* the number of the request execute is sending or has sent
    results,       \* what the calls of execute returned, in order
    \* The library functions (UnwrapSpec, SortAVUsSpec, SortTimestampsSpec,
    \* NewClientPoolSpec, FindBatonSpec)
    arg,           \* the argument the function is called with
    result,        \* what the call returned
    called         \* the call has been made

poolVars == <<isOpen, clients, numClients>>
clientVars == <<spawned, isRunning, tooOld, tooIdle, crashed>>
callerVars == <<pc, try, got, held, afterClose, ret>>
libVars == <<arg, result, called>>
poolSideVars == <<poolVars, clientVars, callerVars, reaperPc>>
poolSpecVars == <<poolSideVars, libVars>>
processVars == <<stdin, stdinClosed, stdout, stderr, worker, exitErr,
                 unsolicited, stderrLines>>
taskVars == <<inPc, outPc, outLine, errPc, watchPc, perr, errChan, errClosed>>
userVars == <<stopPc, stopResults, execPc, request, results>>
handleVars == <<started, pid, startRet, activityTime, prevWatchPc>>
clientSideVars == <<handleVars, running, ctxDone, processVars, taskVars, userVars>>
clientSpecVars == <<clientSideVars, libVars>>
vars == <<poolSpecVars, clientSpecVars>>

(***************************************************************************)
(* Client: the part of client.go the pool uses                             *)
(***************************************************************************)
\* Client.IsRunning
IsRunning(c) == isRunning[c]

\* Client.Stop on each client of S: Stop returns once the watcher has cleared
\* the running flag. The age of a stopped client is no longer looked at.
StopAll(S) ==
    /\ isRunning' = [c \in ClientIds |-> IF c \in S THEN FALSE ELSE isRunning[c]]
    /\ tooOld' = [c \in ClientIds |-> IF c \in S THEN FALSE ELSE tooOld[c]]
    /\ tooIdle' = [c \in ClientIds |-> IF c \in S THEN FALSE ELSE tooIdle[c]]
    /\ crashed' = crashed \ S

\* The terminal errors Stop can return on client c: the worker's exit status
\* for a running client, nil from the closed channel for a stopped one.
StopErrors(c) == IF isRunning[c] THEN {"nil", "errExit"} ELSE {"nil"}

(***************************************************************************)
(* Pool helpers                                                            *)
(***************************************************************************)
\* ClientPool.size, isEmpty
size == Uint8(Len(clients))
isEmpty == size = 0

\* ClientPool.pop: the top client, and the stack left.
popBottom == clients[1]
popTop == clients[Len(clients)]
popStackKeepsTop == clients
popStack == SubSeq(clients, 1, Len(clients) - 1)

\* ClientPool.push
pushBottom(c) == <<c>> \o clients
push(c) == Append(clients, c)

\* getWithTimeout: may a new client be created?
canCreateOffByOne == numClients <= maxSize
canCreate == numClients < maxSize

\* getWithTimeout: the count after FindAndStart has returned; it is
\* incremented if err == nil.
countSpawnAlways(ok) == Uint8(numClients + 1)
countSpawn(ok) == IF ok THEN Uint8(numClients + 1) ELSE numClients

\* The clients on the idle stack.
Idle == {clients[i] : i \in 1..Len(clients)}
\* The clients Get has handed out (or is handing out) and Return has not had.
CheckedOut == {c \in ClientIds : held[c] > 0} \cup ({got[p] : p \in Callers} \ {Nil})

(***************************************************************************)
(* Init                                                                    *)
(***************************************************************************)
PoolInit ==
    /\ isOpen = TRUE
    /\ clients = <<>>
    /\ numClients = 0
    /\ spawned = 0
    /\ isRunning = [c \in ClientIds |-> FALSE]
    /\ tooOld = [c \in ClientIds |-> FALSE]
    /\ tooIdle = [c \in ClientIds |-> FALSE]
    /\ crashed = {}
    /\ pc = [p \in Callers |-> "idle"]
    /\ try = [p \in Callers |-> 0]
    /\ got = [p \in Callers |-> Nil]
    /\ held = [c \in ClientIds |-> 0]
    /\ afterClose = [p \in Callers |-> FALSE]
    /\ ret = [p \in Callers |-> "none"]
    /\ reaperPc = "running"

(***************************************************************************)
(* Get                                                                     *)
(***************************************************************************)
\* getWithRetries: the error returned when the tries are used up.
errAfterTries == "errTries"

\* getWithRetries: an attempt ended with error e, or with a dead client. The
\* error is logged; the loop goes round again, or ends after getMaxRetries tries.
Retry(p, e) ==
    /\ got' = [got EXCEPT ![p] = Nil]
    /\ IF try[p] + 1 < getMaxRetries
         THEN /\ try' = [try EXCEPT ![p] = @ + 1]
              /\ pc' = [pc EXCEPT ![p] = "getWithTimeout"]
              /\ ret' = ret
              /\ UNCHANGED afterClose
         ELSE /\ try' = [try EXCEPT ![p] = 0]
              /\ pc' = [pc EXCEPT ![p] = "idle"]
              /\ ret' = [ret EXCEPT ![p] = errAfterTries]
              /\ afterClose' = [afterClose EXCEPT ![p] = FALSE]
    /\ UNCHANGED held

\* Get, getWithRetries: the call, up to the first getWithTimeout.
Get(p) ==
    /\ pc[p] = "idle"
    /\ try' = [try EXCEPT ![p] = 0]
    /\ IF 0 < getMaxRetries
         THEN /\ pc' = [pc EXCEPT ![p] = "getWithTimeout"]
              /\ ret' = [ret EXCEPT ![p] = "none"]
              /\ afterClose' = [afterClose EXCEPT ![p] = ~isOpen]
         ELSE /\ pc' = pc
              /\ ret' = [ret EXCEPT ![p] = errAfterTries]
              /\ UNCHANGED afterClose
    /\ UNCHANGED <<poolVars, clientVars, got, held, reaperPc>>
    /\ UNCHANGED clientSpecVars

\* getWithTimeout: the timer fires.
getTimeout(p) ==
    /\ pc[p] = "getWithTimeout"
    /\ Retry(p, "errGetTimeout")
    /\ UNCHANGED <<poolVars, clientVars, reaperPc>>
    /\ UNCHANGED clientSpecVars

\* getWithTimeout: one pass of the default branch, under the pool's lock.
getLocked(p) ==
    /\ pc[p] = "getWithTimeout"
    /\ IF ~isOpen
         THEN /\ Retry(p, "errPoolClosed")
              /\ UNCHANGED <<poolVars, clientVars>>
       ELSE IF ~isEmpty
         THEN /\ got' = [got EXCEPT ![p] = popTop]
              /\ clients' = popStack
              /\ pc' = [pc EXCEPT ![p] = "checkRunning"]
              /\ UNCHANGED <<isOpen, numClients, clientVars,
                             try, held, afterClose, ret>>
       ELSE IF canCreate
         THEN \/ /\ spawned < MaxSpawn          \* FindAndStart succeeds
                 /\ spawned' = spawned + 1
                 /\ isRunning' = [isRunning EXCEPT ![spawned + 1] = TRUE]
                 \* Start leaves activityTime zero: the idle time of a client
                 \* that has had no request is the time since the zero time.
                 /\ tooIdle' = [tooIdle EXCEPT ![spawned + 1] = TRUE]
                 /\ numClients' = countSpawn(TRUE)
                 /\ got' = [got EXCEPT ![p] = spawned + 1]
                 /\ pc' = [pc EXCEPT ![p] = "checkRunning"]
                 /\ UNCHANGED <<isOpen, clients, tooOld, crashed,
                                try, held, afterClose, ret>>
              \/ /\ Retry(p, "errSpawn")        \* FindAndStart fails
                 /\ numClients' = countSpawn(FALSE)
                 /\ UNCHANGED <<isOpen, clients, clientVars>>
         ELSE UNCHANGED <<poolVars, clientVars, callerVars>>   \* time.Sleep
    /\ UNCHANGED reaperPc
    /\ UNCHANGED clientSpecVars

\* getWithRetries: client.IsRunning() on the client getWithTimeout returned.
checkRunning(p) ==
    /\ pc[p] = "checkRunning"
    /\ IF IsRunning(got[p])
         THEN /\ held' = [held EXCEPT ![got[p]] = @ + 1]
              /\ ret' = [ret EXCEPT ![p] = "nil"]
              /\ got' = [got EXCEPT ![p] = Nil]
              /\ try' = [try EXCEPT ![p] = 0]
              /\ pc' = [pc EXCEPT ![p] = "idle"]
              /\ afterClose' = [afterClose EXCEPT ![p] = FALSE]
         ELSE Retry(p, "errDeadClient")
    /\ UNCHANGED <<poolVars, clientVars, reaperPc>>
    /\ UNCHANGED clientSpecVars

(***************************************************************************)
(* Return, Close                                                           *)
(***************************************************************************)
\* Return: a stopped client is discarded and the count decremented.
discardStopped == Uint8(numClients - 1)

\* Return to a closed pool: client.StopIgnoreError().
returnClosedDiscards(c) == UNCHANGED <<isRunning, tooOld, tooIdle, crashed>>
returnClosed(c) == StopAll({c})

\* ClientPool.Return(c): the body, under the pool's lock.
returnLocked(p, c) ==
    /\ IF ~isOpen
         THEN /\ returnClosed(c)
              /\ ret' = [ret EXCEPT ![p] = "nil"]
              /\ UNCHANGED <<poolVars>>
       ELSE IF ~IsRunning(c)
         THEN /\ numClients' = discardStopped
              /\ ret' = [ret EXCEPT ![p] = "nil"]
              /\ UNCHANGED <<isOpen, clients, isRunning, tooOld, tooIdle, crashed>>
       ELSE IF size < maxSize
         THEN /\ clients' = push(c)
              /\ ret' = [ret EXCEPT ![p] = "nil"]
              /\ UNCHANGED <<isOpen, numClients, isRunning, tooOld, tooIdle, crashed>>
         ELSE /\ \E e \in StopErrors(c) : ret' = [ret EXCEPT ![p] = e]
              /\ StopAll({c})
              /\ UNCHANGED <<poolVars>>
    /\ UNCHANGED <<spawned, pc, try, got, afterClose, reaperPc>>
    /\ UNCHANGED clientSpecVars

\* ClientPool.Return(c), by a caller that holds c.
Return(p, c) ==
    /\ pc[p] = "idle"
    /\ held[c] > 0
    /\ held' = [held EXCEPT ![c] = @ - 1]
    /\ returnLocked(p, c)

\* ClientPool.Return(c) called a second time with a running client that has
\* already been returned, which is on the idle stack and which no Get has
\* taken since (Return takes any *Client).
ReturnAgain(p, c) ==
    /\ pc[p] = "idle"
    /\ Cardinality({i \in 1..Len(clients) : clients[i] = c}) = 1
    /\ held[c] = 0
    /\ \A q \in Callers : got[q] # c
    /\ IsRunning(c)
    /\ held' = held
    /\ returnLocked(p, c)

\* ClientPool.Close
CloseReopens(p) ==
    /\ pc[p] = "idle"
    /\ IF ~isOpen
         THEN /\ isOpen' = TRUE
              /\ UNCHANGED <<clients, numClients, isRunning, tooOld, tooIdle, crashed>>
         ELSE /\ isOpen' = FALSE
              /\ clients' = <<>>
              /\ StopAll(Idle)
              /\ UNCHANGED numClients
    /\ UNCHANGED <<spawned, callerVars, reaperPc>>
    /\ UNCHANGED clientSpecVars
CloseLeavesRunning(p) ==
    /\ pc[p] = "idle"
    /\ IF ~isOpen
         THEN UNCHANGED <<poolVars, isRunning, tooOld, tooIdle, crashed>>
         ELSE /\ isOpen' = FALSE
              /\ clients' = <<>>
              /\ UNCHANGED <<numClients, isRunning, tooOld, tooIdle, crashed>>
    /\ UNCHANGED <<spawned, callerVars, reaperPc>>
    /\ UNCHANGED clientSpecVars
Close(p) ==
    /\ pc[p] = "idle"
    /\ IF ~isOpen
         THEN UNCHANGED <<poolVars, isRunning, tooOld, tooIdle, crashed>>
         ELSE /\ isOpen' = FALSE
              /\ clients' = <<>>
              /\ StopAll(Idle)
              /\ UNCHANGED numClients
    /\ UNCHANGED <<spawned, callerVars, reaperPc>>
    /\ UNCHANGED clientSpecVars

(***************************************************************************)
(* The reaper                                                              *)
(***************************************************************************)
\* checkClients: is the client discarded?
discardIgnoresIdle(c) == ~IsRunning(c) \/ tooOld[c]
discard(c) == ~IsRunning(c) \/ tooOld[c] \/ tooIdle[c]

\* checkClients: the clients the reaper looks at.
reaperScansAll == [i \in 1..spawned |-> i]
reaperScans == clients

\* checkClients: the clients kept, and the number removed.
keep == SelectSeq(reaperScans, LAMBDA c : ~discard(c))
numRemoved == Uint8(Len(reaperScans) - Len(keep))

\* checkClients: the count after numRemoved clients have gone.
numClientsIsKept == Uint8(Len(keep))
numClientsLess == Uint8(numClients - numRemoved)

\* checkClients: one tick.
checkClients ==
    /\ reaperPc = "running"
    /\ IF ~isOpen
         THEN /\ reaperPc' = "done"
              /\ UNCHANGED <<poolVars, isRunning, tooOld, tooIdle, crashed>>
         ELSE LET gone == {reaperScans[i] : i \in 1..Len(reaperScans)}
                             \ {keep[i] : i \in 1..Len(keep)}
              IN  /\ StopAll({c \in gone : IsRunning(c)})
                  /\ IF Uint8(Len(keep)) # size
                       THEN /\ clients' = keep
                            /\ numClients' = numClientsLess
                       ELSE UNCHANGED <<clients, numClients>>
                  /\ UNCHANGED <<isOpen, reaperPc>>
    /\ UNCHANGED <<spawned, callerVars>>
    /\ UNCHANGED clientSpecVars

(***************************************************************************)
(* The callers' use of clients, and time                                   *)
(***************************************************************************)
\* Client.execute on a held client: the activity time is set to now.
execute(c) ==
    /\ held[c] > 0
    /\ IsRunning(c)
    /\ tooIdle' = [tooIdle EXCEPT ![c] = FALSE]
    /\ UNCHANGED <<poolVars, spawned, isRunning, tooOld, crashed, callerVars, reaperPc>>
    /\ UNCHANGED clientSpecVars

\* Client.Stop by the caller that holds the client.
Stop(c) ==
    /\ held[c] > 0
    /\ StopAll({c})
    /\ UNCHANGED <<poolVars, spawned, callerVars, reaperPc>>
    /\ UNCHANGED clientSpecVars

\* Client.Stop through a handle kept after Return, while the client is on the
\* idle stack (the pool hands out plain pointers and does not revoke them).
StopReturned(c) ==
    /\ c \in Idle
    /\ IsRunning(c)
    /\ StopAll({c})
    /\ UNCHANGED <<poolVars, spawned, callerVars, reaperPc>>
    /\ UNCHANGED clientSpecVars

\* Time passes: a running client's runtime, or its idle time, passes the
\* pool's limit.
Tick(c) ==
    /\ IsRunning(c)
    /\ \/ /\ ~tooOld[c]
          /\ tooOld' = [tooOld EXCEPT ![c] = TRUE]
          /\ UNCHANGED tooIdle
       \/ /\ ~tooIdle[c]
          /\ tooIdle' = [tooIdle EXCEPT ![c] = TRUE]
          /\ UNCHANGED tooOld
    /\ UNCHANGED <<poolVars, spawned, isRunning, crashed, callerVars, reaperPc>>
    /\ UNCHANGED clientSpecVars

\* The worker process of a running client exits on its own (it crashes or is
\* killed) while the client is on the idle stack or in a caller's hands. The
\* writer goroutine is still waiting on ctx.Done, so the watcher does not get
\* past inWg.Wait and the running flag stays set.
workerCrashes(c) ==
    /\ IsRunning(c)
    /\ c \notin crashed
    /\ \A q \in Callers : got[q] # c
    /\ crashed' = crashed \cup {c}
    /\ UNCHANGED <<poolVars, spawned, isRunning, tooOld, tooIdle, callerVars, reaperPc>>
    /\ UNCHANGED clientSpecVars

PoolNext ==
    \/ \E p \in Callers : Get(p)
    \/ \E p \in Callers : getTimeout(p)
    \/ \E p \in Callers : getLocked(p)
    \/ \E p \in Callers : checkRunning(p)
    \/ \E p \in Callers, c \in ClientIds : Return(p, c)
    \/ \E p \in Callers : Close(p)
    \/ checkClients
    \/ \E c \in ClientIds : execute(c)
    \/ \E c \in ClientIds : Stop(c)
    \/ \E c \in ClientIds : StopReturned(c)
    \/ \E c \in ClientIds : Tick(c)

(***************************************************************************)
(* One client: Start and the worker process                                *)
(***************************************************************************)
\* NewClient: a client that has not been started.
ClientInit ==
    /\ started = FALSE
    /\ pid = 0
    /\ startRet = "none"
    /\ activityTime = 0
    /\ prevWatchPc = "none"
    /\ running = FALSE
    /\ ctxDone = FALSE
    /\ stdin = <<>>
    /\ stdinClosed = FALSE
    /\ stdout = <<>>
    /\ stderr = 0
    /\ worker = "none"
    /\ exitErr = "nil"
    /\ unsolicited = 0
    /\ stderrLines = 0
    /\ inPc = "none"
    /\ outPc = "none"
    /\ outLine = 0
    /\ errPc = "none"
    /\ watchPc = "none"
    /\ perr = "nil"
    /\ errChan = <<>>
    /\ errClosed = FALSE
    /\ stopPc = "idle"
    /\ stopResults = <<>>
    /\ execPc = "idle"
    /\ request = 0
    /\ results = <<>>

\* Client.Start: is the client already running?
alreadyRunningNever == FALSE
alreadyRunning == running

\* Client.Start, under the client's lock. On a running client it fails and
\* touches nothing. Otherwise cmd.Start either fails, or the worker is
\* spawned, new pipes, channels and context are made and stored in the client
\* and the four goroutines are launched. The watcher of an earlier run, if it
\* has not ended, goes on.
startLocked ==
    /\ IF alreadyRunning
         THEN /\ startRet' = "client is already running"
              /\ UNCHANGED <<started, pid, running, ctxDone, processVars, taskVars,
                             prevWatchPc>>
         ELSE \/ /\ startRet' = "nil"
                 /\ started' = TRUE
                 /\ pid' = pid + 1
                 /\ running' = TRUE
                 /\ ctxDone' = FALSE
                 /\ worker' = "running"
                 /\ exitErr' = "nil"
                 /\ stdin' = <<>>
                 /\ stdinClosed' = FALSE
                 /\ stdout' = <<>>
                 /\ stderr' = 0
                 /\ inPc' = "select"
                 /\ outPc' = "select"
                 /\ outLine' = 0
                 /\ errPc' = "select"
                 /\ watchPc' = "wait"
                 /\ perr' = "nil"
                 /\ errChan' = <<>>
                 /\ errClosed' = FALSE
                 /\ prevWatchPc' = watchPc
                 /\ UNCHANGED <<unsolicited, stderrLines>>
              \/ /\ startRet' = "errSpawn"
                 /\ UNCHANGED <<started, pid, running, ctxDone, processVars,
                                taskVars, prevWatchPc>>
    /\ UNCHANGED <<activityTime, userVars>>
    /\ UNCHANGED poolSpecVars

\* Client.Start on a client that is running or has not been started.
Start ==
    /\ running \/ ~started
    /\ startLocked

\* Client.Start on a client that has run and is no longer running: no Stop
\* and no request is in progress, and no watcher older than that of the last
\* run is left.
StartAgain ==
    /\ started /\ ~running
    /\ pid < MaxStarts
    /\ stopPc = "idle" /\ execPc = "idle"
    /\ prevWatchPc \in {"none", "done"}
    /\ startLocked

\* Client.ClientPid
ClientPid == IF running THEN pid ELSE -1

\* The worker answers the next request on its stdin with one line on stdout.
\* The answer to request n is the line n.
workerRespond ==
    /\ worker = "running"
    /\ stdin # <<>>
    /\ stdin' = Tail(stdin)
    /\ stdout' = Append(stdout, Head(stdin))
    /\ UNCHANGED <<handleVars, running, ctxDone, stdinClosed, stderr, worker,
                   exitErr, unsolicited, stderrLines, taskVars, userVars>>
    /\ UNCHANGED poolSpecVars

\* The worker writes a line to stdout that answers no request (the line 0).
workerUnsolicited ==
    /\ worker = "running"
    /\ unsolicited < MaxUnsolicited
    /\ unsolicited' = unsolicited + 1
    /\ stdout' = Append(stdout, 0)
    /\ UNCHANGED <<handleVars, running, ctxDone, stdin, stdinClosed, stderr,
                   worker, exitErr, stderrLines, taskVars, userVars>>
    /\ UNCHANGED poolSpecVars

\* The worker writes a line to stderr.
workerStderr ==
    /\ worker = "running"
    /\ stderrLines < MaxStderr
    /\ stderrLines' = stderrLines + 1
    /\ stderr' = stderr + 1
    /\ UNCHANGED <<handleVars, running, ctxDone, stdin, stdinClosed, stdout,
                   worker, exitErr, unsolicited, taskVars, userVars>>
    /\ UNCHANGED poolSpecVars

\* The worker reads end-of-file on its stdin and exits, with either status.
workerExit ==
    /\ worker = "running"
    /\ stdinClosed
    /\ stdin = <<>>
    /\ worker' = "exited"
    /\ \E e \in {"nil", "errExit"} : exitErr' = e
    /\ UNCHANGED <<handleVars, running, ctxDone, stdin, stdinClosed, stdout,
                   stderr, unsolicited, stderrLines, taskVars, userVars>>
    /\ UNCHANGED poolSpecVars

\* The worker crashes or is killed.
workerDies ==
    /\ worker = "running"
    /\ worker' = "exited"
    /\ exitErr' = "errExit"
    /\ UNCHANGED <<handleVars, running, ctxDone, stdin, stdinClosed, stdout,
                   stderr, unsolicited, stderrLines, taskVars, userVars>>
    /\ UNCHANGED poolSpecVars

(***************************************************************************)
(* The I/O goroutines of Start                                             *)
(***************************************************************************)
\* The writer: ctx.Done is ready; stdin is closed and the goroutine returns.
writerCancelled ==
    /\ inPc = "select"
    /\ ctxDone
    /\ stdinClosed' = TRUE
    /\ inPc' = "done"
    /\ UNCHANGED <<handleVars, running, ctxDone, stdin, stdout, stderr, worker,
                   exitErr, unsolicited, stderrLines, outPc, outLine, errPc,
                   watchPc, perr, errChan, errClosed, userVars>>
    /\ UNCHANGED poolSpecVars

\* The writer receives a request from client.in, where send is blocked in
\* `client.in <- jsonMessage`, and writes it to stdin.
writerWrites ==
    /\ inPc = "select"
    /\ execPc = "send"
    /\ execPc' = "wait"
    /\ stdin' = IF worker = "running" THEN Append(stdin, request) ELSE stdin
    /\ UNCHANGED <<handleVars, running, ctxDone, stdinClosed, stdout, stderr,
                   worker, exitErr, unsolicited, stderrLines, taskVars,
                   stopPc, stopResults, request, results>>
    /\ UNCHANGED poolSpecVars

\* The stdout reader's select: ctx.Done is ready and it returns; or the
\* default branch is taken and it goes to read.
readerSelect ==
    /\ outPc = "select"
    /\ outPc' = IF ctxDone THEN "done" ELSE "read"
    /\ UNCHANGED <<handleVars, running, ctxDone, processVars, inPc, outLine,
                   errPc, watchPc, perr, errChan, errClosed, userVars>>
    /\ UNCHANGED poolSpecVars

\* The stdout reader's rd.ReadBytes returns: a line, or EOF once the worker
\* has exited and the pipe is drained.
readerReads ==
    /\ outPc = "read"
    /\ IF stdout # <<>>
         THEN /\ outLine' = Head(stdout)
              /\ stdout' = Tail(stdout)
              /\ outPc' = "send"
         ELSE /\ worker = "exited"
              /\ outPc' = "done"
              /\ UNCHANGED <<outLine, stdout>>
    /\ UNCHANGED <<handleVars, running, ctxDone, stdin, stdinClosed, stderr,
                   worker, exitErr, unsolicited, stderrLines, inPc, errPc,
                   watchPc, perr, errChan, errClosed, userVars>>
    /\ UNCHANGED poolSpecVars

\* The stderr reader's select.
stderrSelect ==
    /\ errPc = "select"
    /\ errPc' = IF ctxDone THEN "done" ELSE "read"
    /\ UNCHANGED <<handleVars, running, ctxDone, processVars, inPc, outPc, outLine,
                   watchPc, perr, errChan, errClosed, userVars>>
    /\ UNCHANGED poolSpecVars

\* The stderr reader's rd.ReadBytes returns: a line, which is logged, or EOF.
stderrReads ==
    /\ errPc = "read"
    /\ IF stderr > 0
         THEN /\ stderr' = stderr - 1
              /\ errPc' = "select"
         ELSE /\ worker = "exited"
              /\ errPc' = "done"
              /\ UNCHANGED stderr
    /\ UNCHANGED <<handleVars, running, ctxDone, stdin, stdinClosed, stdout,
                   worker, exitErr, unsolicited, stderrLines, inPc, outPc,
                   outLine, watchPc, perr, errChan, errClosed, userVars>>
    /\ UNCHANGED poolSpecVars

\* The watcher: inWg.Wait, outWg.Wait and cmd.Wait have returned.
watcherWaits ==
    /\ watchPc = "wait"
    /\ inPc = "done"
    /\ outPc = "done" /\ errPc = "done"
    /\ worker = "exited"
    /\ perr' = exitErr
    /\ watchPc' = "update"
    /\ UNCHANGED <<handleVars, running, ctxDone, processVars, inPc, outPc,
                   outLine, errPc, errChan, errClosed, userVars>>
    /\ UNCHANGED poolSpecVars

\* The watcher clears the running flag, under the client's lock.
watcherUpdatesNothing ==
    /\ watchPc = "update"
    /\ watchPc' = "publish"
    /\ UNCHANGED <<handleVars, running, ctxDone, processVars, inPc, outPc,
                   outLine, errPc, perr, errChan, errClosed, userVars>>
    /\ UNCHANGED poolSpecVars
watcherUpdates ==
    /\ watchPc = "update"
    /\ running' = FALSE
    /\ watchPc' = "publish"
    /\ UNCHANGED <<handleVars, ctxDone, processVars, inPc, outPc, outLine, errPc,
                   perr, errChan, errClosed, userVars>>
    /\ UNCHANGED poolSpecVars

\* The watcher sends perr on client.err, a channel with a buffer of one: the
\* send waits while the buffer is full and panics on a closed channel.
watcherPublishes ==
    /\ watchPc = "publish"
    /\ errClosed \/ errChan = <<>>
    /\ IF errClosed
         THEN /\ watchPc' = "panic"
              /\ UNCHANGED errChan
         ELSE /\ errChan' = Append(errChan, perr)
              /\ watchPc' = "close"
    /\ UNCHANGED <<handleVars, running, ctxDone, processVars, inPc, outPc,
                   outLine, errPc, perr, errClosed, userVars>>
    /\ UNCHANGED poolSpecVars

\* The watcher closes client.err; closing a closed channel panics.
watcherCloses ==
    /\ watchPc = "close"
    /\ IF errClosed
         THEN /\ watchPc' = "panic"
              /\ UNCHANGED errClosed
         ELSE /\ errClosed' = TRUE
              /\ watchPc' = "done"
    /\ UNCHANGED <<handleVars, running, ctxDone, processVars, inPc, outPc,
                   outLine, errPc, perr, errChan, userVars>>
    /\ UNCHANGED poolSpecVars

\* The watcher of the run before the last Start does `close(c.err)`. It has
\* sent perr, which Stop has received, and reads the field c.err without the
\* client's lock while Start writes it: the channel it closes is that of its
\* own run, which no one reads any more, or that of the new run.
prevWatcherCloses ==
    /\ prevWatchPc = "close"
    /\ \/ /\ prevWatchPc' = "done"
          /\ UNCHANGED errClosed
       \/ IF errClosed
            THEN /\ prevWatchPc' = "panic"
                 /\ UNCHANGED errClosed
            ELSE /\ errClosed' = TRUE
                 /\ prevWatchPc' = "done"
    /\ UNCHANGED <<started, pid, startRet, activityTime, running, ctxDone,
                   processVars, inPc, outPc, outLine, errPc, watchPc, perr,
                   errChan, userVars>>
    /\ UNCHANGED poolSpecVars

(***************************************************************************)
(* Stop and execute                                                        *)
(***************************************************************************)
\* Client.Stop on a client that Start has not set up: client.cancel is nil,
\* and calling a nil function panics.
stopNeverStarted ==
    /\ ~started
    /\ stopPc = "idle"
    /\ stopPc' = "panic"
    /\ UNCHANGED <<handleVars, running, ctxDone, processVars, taskVars,
                   stopResults, execPc, request, results>>
    /\ UNCHANGED poolSpecVars

\* Client.Stop: client.cancel() is called.
stopCancels ==
    /\ started
    /\ stopPc = "idle"
    /\ Len(stopResults) < MaxStops
    /\ ctxDone' = TRUE
    /\ stopPc' = "recv"
    /\ UNCHANGED <<handleVars, running, processVars, taskVars,
                   stopResults, execPc, request, results>>
    /\ UNCHANGED poolSpecVars

\* Stop: what `<-client.err` yields: the buffered value, or the zero value
\* (nil) of a closed and drained channel.
recvErr == IF errChan # <<>> THEN Head(errChan) ELSE "nil"

\* Client.Stop: `<-client.err` returns.
stopReceives ==
    /\ stopPc = "recv"
    /\ errChan # <<>> \/ errClosed
    /\ stopResults' = Append(stopResults, recvErr)
    /\ errChan' = IF errChan # <<>> THEN Tail(errChan) ELSE errChan
    /\ stopPc' = "idle"
    /\ UNCHANGED <<handleVars, running, ctxDone, processVars, inPc, outPc,
                   outLine, errPc, watchPc, perr, errClosed,
                   execPc, request, results>>
    /\ UNCHANGED poolSpecVars

\* Client.execute: is the client stopped?
clientStoppedNever == FALSE
clientStopped == ~running

\* Client.execute: client.activityTime = time.Now(), where the time at which
\* request n is accepted is n.
activityTimeStale(n) == activityTime
activityTimeNow(n) == n

\* Client.execute: the running flag is read; a stopped client fails at once,
\* a running one has its activity time set and goes on to send the next
\* request.
execute1 ==
    /\ execPc = "idle"
    /\ Len(results) < MaxRequests
    /\ IF clientStopped
         THEN /\ results' = Append(results, [req |-> 0, line |-> 0,
                                                err |-> "client is not running"])
              /\ UNCHANGED <<execPc, request, activityTime>>
         ELSE /\ request' = request + 1
              /\ activityTime' = activityTimeNow(request + 1)
              /\ execPc' = "send"
              /\ UNCHANGED results
    /\ UNCHANGED <<started, pid, startRet, prevWatchPc, running, ctxDone,
                   processVars, taskVars, stopPc, stopResults>>
    /\ UNCHANGED poolSpecVars

\* Client.send: a line arrives on client.out from the stdout reader, which is
\* blocked in `pout <- line`; send returns it.
sendReceives ==
    /\ execPc = "wait"
    /\ outPc = "send"
    /\ results' = Append(results, [req |-> request, line |-> outLine, err |-> "nil"])
    /\ execPc' = "idle"
    /\ outPc' = "select"
    /\ UNCHANGED <<handleVars, running, ctxDone, processVars, inPc, outLine, errPc,
                   watchPc, perr, errChan, errClosed, stopPc, stopResults, request>>
    /\ UNCHANGED poolSpecVars

\* Client.send: the response timeout expires. If the client is running, send
\* waits again; if not, it fails.
sendTimesOutGivesUp ==
    /\ execPc = "wait"
    /\ results' = Append(results, [req |-> request, line |-> 0,
                                      err |-> "receiving failed"])
    /\ execPc' = "idle"
    /\ UNCHANGED <<handleVars, running, ctxDone, processVars, taskVars,
                   stopPc, stopResults, request>>
    /\ UNCHANGED poolSpecVars
sendTimesOut ==
    /\ execPc = "wait"
    /\ IF ~running
         THEN /\ results' = Append(results, [req |-> request, line |-> 0,
                                                err |-> "receiving failed"])
              /\ execPc' = "idle"
         ELSE UNCHANGED <<results, execPc>>
    /\ UNCHANGED <<handleVars, running, ctxDone, processVars, taskVars,
                   stopPc, stopResults, request>>
    /\ UNCHANGED poolSpecVars

ClientNext ==
    \/ Start
    \/ workerRespond
    \/ workerUnsolicited
    \/ workerStderr
    \/ workerExit
    \/ workerDies
    \/ writerCancelled
    \/ writerWrites
    \/ readerSelect
    \/ readerReads
    \/ stderrSelect
    \/ stderrReads
    \/ watcherWaits
    \/ watcherUpdates
    \/ watcherPublishes
    \/ watcherCloses
    \/ stopCancels
    \/ stopReceives
    \/ execute1
    \/ sendReceives
    \/ sendTimesOut

(***************************************************************************)
(* Library functions: sorting (rodsitem.go)                                *)
(*                                                                         *)
(* A string is represented by a number: 0 is the empty string and the      *)
(* order of the numbers is the order of the strings. A time is a number    *)
(* too: 0 is the zero time and a smaller number is an earlier time.        *)
(***************************************************************************)
\* The sequences over S of length at most n.
SeqsUpTo(S, n) == UNION {[1..k -> S] : k \in 0..n}

\* The inner loop of the insertion sort sort.SliceStable runs on a slice
\* shorter than its block size: the last element of t moves down while it is
\* less than the element before it.
insertLast(t, less(_, _)) ==
    LET n == Len(t)
        x == t[n]
        pos == CHOOSE j \in 1..n :
                  /\ j = 1 \/ ~less(x, t[j - 1])
                  /\ \A k \in (j + 1)..n : less(x, t[k - 1])
    IN  SubSeq(t, 1, pos - 1) \o <<x>> \o SubSeq(t, pos, n - 1)

\* sort.SliceStable(s, less), for a slice shorter than the block size.
SliceStable(s, less(_, _)) ==
    LET sorted[k \in 0..Len(s)] ==
            IF k = 0 THEN <<>> ELSE insertLast(Append(sorted[k - 1], s[k]), less)
    IN  sorted[Len(s)]

\* RodsItem.IsCollection, IsDataObject
IsCollection(item) == item.IName = 0 /\ item.IPath # 0
IsDataObject(item) == item.IName # 0

\* SortRodsItems: the less function.
lessRodsItemsByPath(a, b) == a.IPath < b.IPath
lessRodsItems(a, b) ==
    LET iColl == IsCollection(a)
        jColl == IsCollection(b)
    IN  IF iColl /\ ~jColl THEN TRUE
        ELSE IF ~iColl /\ jColl THEN FALSE
        ELSE IF iColl /\ jColl THEN a.IPath < b.IPath
        ELSE IF a.IPath = b.IPath THEN a.IName < b.IName
        ELSE a.IPath < b.IPath

\* SortRodsItems
SortRodsItems(items) == SliceStable(items, lessRodsItems)

\* SortAVUs: the less function.
lessAVUs(a, b) == a.Attr < b.Attr \/ a.Value < b.Value \/ a.Units < b.Units

\* SortAVUs
SortAVUs(avus) == SliceStable(avus, lessAVUs)

\* time.Time.IsZero, Before
IsZero(t) == t = 0
Before(t, u) == t < u

\* SortTimestamps: the less function.
lessTimestamps(a, b) ==
    IF a.Replicates < b.Replicates THEN TRUE
    ELSE IF a.Replicates > b.Replicates THEN FALSE
    ELSE LET ci == ~IsZero(a.Created)
             cj == ~IsZero(b.Created)
             mi == ~IsZero(a.Modified)
             mj == ~IsZero(b.Modified)
         IN  \/ ci /\ ~cj
             \/ ~mi /\ mj
             \/ ci /\ cj /\ Before(a.Created, b.Created)
             \/ mi /\ mj /\ Before(a.Modified, b.Modified)

\* SortTimestamps
SortTimestamps(times) == SliceStable(times, lessTimestamps)

(***************************************************************************)
(* Library functions: errors and unwrap (client.go)                        *)
(***************************************************************************)
\* A nil pointer or a nil error, and a pointer to v.
nil == [type |-> "nil"]
Ptr(v) == [type |-> "ptr", val |-> v]

\* errors.New, errors.Errorf, errors.Wrapf of github.com/pkg/errors.
New(msg) == [type |-> "fundamental", msg |-> msg]
Errorf(msg) == [type |-> "fundamental", msg |-> msg]
Wrapf(err, msg) == [type |-> "withMessage", cause |-> err, msg |-> msg]

\* RodsError{err, code}
RodsError(err, code) == [type |-> "RodsError", err |-> err, code |-> code]

\* errors.Cause: the innermost error that has no cause of its own.
RECURSIVE Cause(_)
CauseShallow(err) == err
Cause(err) == IF err.type = "withMessage" THEN Cause(err.cause) ELSE err

\* IsRodsError
IsRodsError(err) == Cause(err).type = "RodsError"

\* RodsErrorCode
RodsErrorCode(err) ==
    IF Cause(err).type = "RodsError"
      THEN [code |-> Cause(err).code, err |-> nil]
      ELSE [code |-> 0, err |-> Errorf("cannot get an iRODS error code")]

\* unwrap: item.client = client. A decoded item has no client (the field is
\* not part of the JSON document).
setClient(item, client) ==
    [IPath |-> item.IPath, IName |-> item.IName, IContents |-> item.IContents,
     client |-> client]

\* unwrap: the items of a response envelope, each with its client set and
\* its contents, with their client set, sorted; or the error the envelope
\* stands for. The items of the model have a path, a name and contents.
unwrap(client, envelope) ==
    IF envelope.ErrorMsg # nil
      THEN [items |-> <<>>,
            err |-> Wrapf(RodsError(New(envelope.ErrorMsg.Message),
                                    envelope.ErrorMsg.Code),
                          "operation failed")]
    ELSE IF envelope.Result = nil
      THEN [items |-> <<>>, err |-> Errorf("invalid operation envelope (no result)")]
    ELSE IF envelope.Result.List = nil /\ envelope.Result.Item = nil
      THEN [items |-> <<>>, err |-> Errorf("invalid operation result (no content)")]
    ELSE LET items == IF envelope.Result.List # nil
                        THEN envelope.Result.List.val
                        ELSE <<envelope.Result.Item.val>>
             sorted == SortRodsItems(items)
         IN  [items |-> [i \in 1..Len(sorted) |->
                            LET contents == [j \in 1..Len(sorted[i].IContents) |->
                                                setClient(sorted[i].IContents[j], client)]
                            IN  [setClient(sorted[i], client)
                                    EXCEPT !.IContents = SortRodsItems(contents)]],
              err |-> nil]

\* What a call ends with when it indexes a slice beyond its length.
indexOutOfRange == [panic |-> "index out of range"]

\* Client.Chmod, Checksum, Get, metaMod (MetaAdd, MetaRem) and MkDir: execute
\* has sent the request on a running client and unwraps the response; the
\* operation returns items[0].
itemOp(item, response) ==
    LET r == unwrap(Ptr("client"), response)
    IN  IF r.err # nil THEN [item |-> item, err |-> r.err]
        ELSE IF Len(r.items) = 0 THEN indexOutOfRange
        ELSE [item |-> r.items[1], err |-> nil]

\* Client.listRecurse: response is the worker's answer to the listing of
\* item; the listing of a collection found in it is answered with that
\* collection and the contents it was found with.
RECURSIVE listRecurse(_, _)
listRecurse(item, response) ==
    IF IsDataObject(item)
      THEN [items |-> <<setClient(item, Ptr("client"))>>, err |-> nil]
    ELSE LET r == unwrap(Ptr("client"), response)
             contents == r.items[1].IContents
             found[k \in 0..Len(contents)] ==
                 IF k = 0 THEN <<item>>
                 ELSE IF IsCollection(contents[k])
                   THEN found[k - 1] \o
                          listRecurse(contents[k],
                                      [Result |-> [Item |-> Ptr(contents[k]), List |-> nil],
                                       ErrorMsg |-> nil]).items
                   ELSE Append(found[k - 1], contents[k])
             items == IF r.err = nil THEN found[Len(contents)] ELSE <<item>>
             sorted == SortRodsItems(items)
         IN  IF r.err = nil /\ Len(r.items) = 0 THEN indexOutOfRange
             ELSE [items |-> [i \in 1..Len(sorted) |->
                                 setClient(sorted[i], Ptr("client"))],
                   err |-> r.err]

(***************************************************************************)
(* Library functions: Uniq, the worker's arguments, FindBaton              *)
(***************************************************************************)
\* The argument strings of the model, in the order of sort.Strings.
ArgStrings == <<"--connect-time", "--no-error", "--unbuffered", "--zone">>
rank(str) == CHOOSE i \in 1..Len(ArgStrings) : ArgStrings[i] = str

\* sort.Strings on the strings of the set S.
SortStrings(S) ==
    [i \in 1..Cardinality(S) |->
        CHOOSE x \in S : Cardinality({y \in S : rank(y) < rank(x)}) = i - 1]

\* utilities.Uniq: the items are made the keys of a map, and the keys are
\* returned sorted.
Uniq(items) == SortStrings({items[i] : i \in 1..Len(items)})

\* NewClientPool: the arguments every worker is started with.
processedArgs(clientArgs) == Uniq(<<"--unbuffered", "--no-error">> \o clientArgs)

\* The entries PATH can have, and the directory each names once cleaned
\* (filepath.Join cleans its result; an empty entry is the working directory).
PathEntries == {"", "/a", "/a/", "/b"}
cleanDir(dir) == IF dir = "" THEN "." ELSE IF dir = "/a/" THEN "/a" ELSE dir

\* A path: the directory and the base name. The empty string is noPath.
noPath == [Dir |-> "", Base |-> ""]

\* filepath.Join(dir, "baton-do")
Join(dir) == [Dir |-> cleanDir(dir), Base |-> "baton-do"]

\* filepath.Clean of a path that Join made.
Clean(path) == [Dir |-> cleanDir(path.Dir), Base |-> path.Base]

\* filepath.Glob of a pattern with no metacharacter: the pattern, if the file
\* exists. files is the set of directories that hold a baton-do.
Glob(pattern, files) == IF pattern.Dir \in files THEN <<pattern>> ELSE <<>>

\* FindBaton: the loop over the directories of PATH; baton after the first k.
batonAfter(dirs, files) ==
    LET baton[k \in 0..Len(dirs)] ==
            IF k = 0 THEN noPath
            ELSE LET paths == Glob(Join(dirs[k]), files)
                 IN  IF paths # <<>> /\ paths[1].Base = "baton-do"
                       THEN paths[1]
                       ELSE baton[k - 1]
    IN  baton[Len(dirs)]

\* FindBaton
FindBaton(dirs, files) ==
    LET baton == batonAfter(dirs, files)
    IN  IF baton = noPath
          THEN [path |-> baton, err |-> Errorf("baton-do not present in PATH")]
          ELSE [path |-> Clean(baton), err |-> nil]

(***************************************************************************)
(* Library functions: metadata (rodsitem.go, metadata.go)                  *)
(*                                                                         *)
(* The server is the worker and the iRODS catalogue behind it: the set of  *)
(* AVUs the item has. It refuses to add an AVU the item has and to remove  *)
(* one it has not, which is why AddMetadata and RemoveMetadata were not    *)
(* idempotent while they passed their argument straight to MetaAdd and     *)
(* MetaRem (CHANGELOG.md, 2.1.0).                                          *)
(***************************************************************************)
\* Is avu one of avus?
hasAVU(avus, avu) == \E i \in 1..Len(avus) : avus[i] = avu

\* SetDiffAVUs: the AVUs of x that are not in y, sorted (sort.Sort with
\* AVULess on a short slice is the same insertion sort).
SetDiffAVUs(x, y) == SortAVUs(SelectSeq(x, LAMBDA avu : ~hasAVU(y, avu)))

\* SetUnionAVUs: the AVUs of x, each once, then those of y that are not in
\* x, sorted.
SetUnionAVUs(x, y) ==
    LET firstOfX == {i \in 1..Len(x) : \A j \in 1..(i - 1) : x[j] # x[i]}
        xs[k \in 0..Len(x)] ==
            IF k = 0 THEN <<>>
            ELSE IF k \in firstOfX THEN Append(xs[k - 1], x[k]) ELSE xs[k - 1]
    IN  SortAVUs(xs[Len(x)] \o SelectSeq(y, LAMBDA avu : ~hasAVU(x, avu)))

\* The worker's answer to a listing with the AVUs asked for, as unwrap
\* leaves it: the AVUs of the set server, sorted.
RECURSIVE listAVUs(_)
listAVUs(server) ==
    IF server = {} THEN <<>>
    ELSE LET avu == CHOOSE a \in server :
                        \A b \in server :
                            \/ a.Attr < b.Attr
                            \/ a.Attr = b.Attr /\ a.Value < b.Value
                            \/ a.Attr = b.Attr /\ a.Value = b.Value /\ a.Units <= b.Units
         IN  SortAVUs(<<avu>> \o listAVUs(server \ {avu}))

\* The worker's metamod: the AVUs are added to, or removed from, the item
\* one after the other, up to the first that is refused.
RECURSIVE metamod(_, _, _)
metamod(server, operation, avus) ==
    IF avus = <<>> THEN [server |-> server, err |-> nil]
    ELSE IF operation = "add"
      THEN IF Head(avus) \in server
             THEN [server |-> server,
                   err |-> Wrapf(RodsError(New("add failed"), -809000), "operation failed")]
             ELSE metamod(server \cup {Head(avus)}, operation, Tail(avus))
      ELSE IF Head(avus) \notin server
             THEN [server |-> server,
                   err |-> Wrapf(RodsError(New("rem failed"), -819000), "operation failed")]
             ELSE metamod(server \ {Head(avus)}, operation, Tail(avus))

\* RodsItem.AddMetadata on an item whose AVUs on the server are server: the
\* server afterwards, item.IAVUs and the error returned.
AddMetadata(server, avus) ==
    LET currentAVUs == listAVUs(server)
        toAdd == SetDiffAVUs(avus, currentAVUs)
        added == metamod(server, "add", toAdd)
    IN  IF Len(toAdd) > 0
          THEN IF added.err # nil
                 THEN [server |-> added.server, IAVUs |-> currentAVUs, err |-> added.err]
                 ELSE [server |-> added.server,
                       IAVUs |-> SetUnionAVUs(currentAVUs, toAdd), err |-> nil]
          ELSE [server |-> server, IAVUs |-> currentAVUs, err |-> nil]

\* RodsItem.RemoveMetadata
RemoveMetadata(server, avus) ==
    LET currentAVUs == listAVUs(server)
        removed == metamod(server, "rem", avus)
    IN  IF removed.err # nil
          THEN [server |-> removed.server, IAVUs |-> currentAVUs, err |-> removed.err]
          ELSE [server |-> removed.server,
                IAVUs |-> SetDiffAVUs(currentAVUs, avus), err |-> nil]

(***************************************************************************)
(* Library functions: a client's runtime and idle time, and the reaper's   *)
(* test                                                                    *)
(*                                                                         *)
(* The zero time is 0. A duration is at most MaxDuration (time.Duration    *)
(* is an int64 of nanoseconds, about 292 years), and the wall clock starts *)
(* at Epoch, further from the zero time (the year 1) than that.            *)
(***************************************************************************)
MaxDuration == 3
Epoch == MaxDuration + 1

\* time.Time.Sub: t - u, or the largest duration if that is exceeded.
Sub(t, u) == IF t - u > MaxDuration THEN MaxDuration ELSE t - u

\* time.Since, at the time now.
Since(t, now) == Sub(now, t)

\* Client.Runtime
Runtime(client, now) ==
    IF client.isRunning
      THEN Since(client.startTime, now)
      ELSE Sub(client.stopTime, client.startTime)

\* Client.IdleTime
IdleTime(client, now) ==
    IF client.isRunning
      THEN Since(client.activityTime, now)
      ELSE Sub(client.stopTime, client.activityTime)

\* checkClients: what one tick does with one client of the idle stack.
checkClient(client, now, pool) ==
    IF ~client.isRunning THEN "removed"
    ELSE IF Runtime(client, now) > pool.maxClientRuntime THEN "stopped long running"
    ELSE IF IdleTime(client, now) > pool.maxClientIdleTime THEN "stopped idle"
    ELSE "kept"

(***************************************************************************)
(* Calls of the library functions                                          *)
(***************************************************************************)
\* The longest list of items in a response, of AVUs, of timestamps, of
\* arguments given to NewClientPool and of entries in PATH.
MaxItems == 3
MaxAVUs == 3
MaxTimestamps == 2
MaxArgs == 3
MaxDirs == 2

\* The items a response can hold: collections and data objects.
RodsItems ==
    {[IPath |-> p, IName |-> n, IContents |-> <<>>] : p \in {1, 2}, n \in {0, 1, 2}}
ItemLists == SeqsUpTo(RodsItems, MaxItems)

\* Collections whose contents hold a collection that has contents of its own.
DeepItems ==
    {[IPath |-> 1, IName |-> 0,
      IContents |-> <<[IPath |-> 2, IName |-> 0, IContents |-> <<x>>]>>] : x \in RodsItems}

\* The error codes a response can carry (int32).
Codes == {-2147483647 - 1, -310000, -1, 0, 1, 2147483647}

\* The response envelopes: with or without an error, with or without a
\* result, the result a list of items or one collection with contents.
Envelopes ==
    LET Results ==
            {nil, [Item |-> nil, List |-> nil]}
              \cup {[Item |-> nil, List |-> Ptr(l)] : l \in ItemLists}
              \cup {[Item |-> Ptr([IPath |-> 1, IName |-> 0, IContents |-> l]),
                     List |-> nil] : l \in ItemLists}
              \cup {[Item |-> Ptr(d), List |-> nil] : d \in DeepItems}
        ErrorMsgs == {nil} \cup {[Message |-> 1, Code |-> c] : c \in Codes}
    IN  {[Result |-> r, ErrorMsg |-> e] : r \in Results, e \in ErrorMsgs}

AVUs == [Attr : {1, 2}, Value : {1, 2}, Units : {0, 1}]
Timestamps == [Replicates : {0, 1}, Created : {0, 1, 2}, Modified : {0, 1, 2}]

\* The wall clock runs from Epoch to Epoch + MaxClock.
MaxClock == 3
Clock == Epoch..(Epoch + MaxClock)

\* The clients the reaper can find on the idle stack at the time now: started
\* at startTime, the activity time zero if execute has not been called and
\* the time of the last call of execute otherwise, stopped or not.
ClientsAt(now) ==
    {c \in [isRunning : BOOLEAN, startTime : Clock, activityTime : {0} \cup Clock,
            stopTime : {0} \cup Clock] :
        /\ c.startTime <= now
        /\ c.activityTime # 0 => (c.startTime <= c.activityTime /\ c.activityTime <= now)
        /\ c.isRunning => c.stopTime = 0
        /\ ~c.isRunning => /\ c.startTime <= c.stopTime /\ c.stopTime <= now
                           /\ c.activityTime <= c.stopTime}

\* A function is called once, with arg, and returns result.
Call(value) ==
    /\ ~called
    /\ called' = TRUE
    /\ result' = value
    /\ UNCHANGED <<arg, poolSideVars, clientSideVars>>

\* unwrap(client, envelope)
UnwrapInit == PoolInit /\ ClientInit /\ arg \in Envelopes /\ result = <<>> /\ called = FALSE
callUnwrap == Call(unwrap(Ptr("client"), arg))
UnwrapSpec == UnwrapInit /\ [][callUnwrap]_vars

\* SortAVUs(avus)
SortAVUsInit ==
    PoolInit /\ ClientInit /\ arg \in SeqsUpTo(AVUs, MaxAVUs) /\ result = <<>> /\ called = FALSE
callSortAVUs == Call(SortAVUs(arg))
SortAVUsSpec == SortAVUsInit /\ [][callSortAVUs]_vars

\* SortTimestamps(times)
SortTimestampsInit ==
    /\ PoolInit /\ ClientInit
    /\ arg \in SeqsUpTo(Timestamps, MaxTimestamps) /\ result = <<>> /\ called = FALSE
callSortTimestamps == Call(SortTimestamps(arg))
SortTimestampsSpec == SortTimestampsInit /\ [][callSortTimestamps]_vars

\* NewClientPool(params, clientArgs...): pool.clientArgs
NewClientPoolInit ==
    /\ PoolInit /\ ClientInit
    /\ arg \in SeqsUpTo({ArgStrings[i] : i \in 1..Len(ArgStrings)}, MaxArgs)
    /\ result = <<>> /\ called = FALSE
NewClientPool == Call(processedArgs(arg))
NewClientPoolSpec == NewClientPoolInit /\ [][NewClientPool]_vars

\* FindBaton(), with PATH and the file system as its inputs.
FindBatonInit ==
    /\ PoolInit /\ ClientInit
    /\ arg \in [PATH : SeqsUpTo(PathEntries, MaxDirs) \ {<<>>},
                files : SUBSET {".", "/a", "/b"}]
    /\ result = <<>> /\ called = FALSE
callFindBaton == Call(FindBaton(arg.PATH, arg.files))
FindBatonSpec == FindBatonInit /\ [][callFindBaton]_vars

\* AddMetadata(avus) or RemoveMetadata(avus), called MaxApply times in a row
\* on an item that has some of the AVUs MetaAVUs on the server. result holds
\* the AVUs on the server at first and after each call, and the errors
\* returned.
MaxApply == 2
MetaAVUs ==
    {[Attr |-> 1, Value |-> 1, Units |-> 0], [Attr |-> 1, Value |-> 2, Units |-> 0],
     [Attr |-> 2, Value |-> 1, Units |-> 1]}
MetadataInit ==
    /\ PoolInit /\ ClientInit
    /\ arg \in [op : {"add", "rem"}, avus : SeqsUpTo(MetaAVUs, MaxAVUs)]
    /\ \E server \in SUBSET MetaAVUs :
          result = [servers |-> <<server>>, IAVUs |-> <<>>, errs |-> <<>>]
    /\ called = FALSE
callMetadata ==
    /\ Len(result.errs) < MaxApply
    /\ LET server == result.servers[Len(result.servers)]
           r == IF arg.op = "add" THEN AddMetadata(server, arg.avus)
                                  ELSE RemoveMetadata(server, arg.avus)
       IN  result' = [servers |-> Append(result.servers, r.server),
                      IAVUs |-> r.IAVUs,
                      errs |-> Append(result.errs, r.err)]
    /\ called' = TRUE
    /\ UNCHANGED <<arg, poolSideVars, clientSideVars>>
MetadataSpec == MetadataInit /\ [][callMetadata]_vars

\* A single-item operation (Chmod, Checksum, Get, MetaAdd, MetaRem, MkDir) or
\* a recursive List on an item, and the worker's response to it.
itemOpInit ==
    /\ PoolInit /\ ClientInit
    /\ arg \in [op : {"item", "list"},
                 item : {[IPath |-> 1, IName |-> 0, IContents |-> <<>>],
                         [IPath |-> 1, IName |-> 1, IContents |-> <<>>]},
                 response : Envelopes]
    /\ result = <<>> /\ called = FALSE
callItemOp ==
    Call(IF arg.op = "item" THEN itemOp(arg.item, arg.response)
                            ELSE listRecurse(arg.item, arg.response))
itemOpSpec == itemOpInit /\ [][callItemOp]_vars

\* One tick of checkClients on one idle client, in a pool with the given
\* limits.
checkClientInit ==
    /\ PoolInit /\ ClientInit
    /\ \E now \in Clock :
          arg \in [client : ClientsAt(now), now : {now},
                   pool : [maxClientRuntime : 1..MaxDuration,
                           maxClientIdleTime : 1..MaxDuration]]
    /\ result = <<>> /\ called = FALSE
callCheckClient == Call(checkClient(arg.client, arg.now, arg.pool))
checkClientSpec == checkClientInit /\ [][callCheckClient]_vars

(***************************************************************************)
(* Specifications                                                          *)
(***************************************************************************)
\* No library function is being called.
LibInit ==
    /\ arg = <<>>
    /\ result = <<>>
    /\ called = FALSE

Init == PoolInit /\ ClientInit /\ LibInit

Next == PoolNext

Spec == Init /\ [][Next]_vars

\* The pool, with workers that may exit on their own.
CrashNext == PoolNext \/ \E c \in ClientIds : workerCrashes(c)
CrashSpec == Init /\ [][CrashNext]_vars

\* The pool used by callers that only Get and Return, and that may return a
\* client a second time.
AgainNext ==
    \/ \E p \in Callers : Get(p)
    \/ \E p \in Callers : getTimeout(p)
    \/ \E p \in Callers : getLocked(p)
    \/ \E p \in Callers : checkRunning(p)
    \/ \E p \in Callers, c \in ClientIds : Return(p, c)
    \/ \E p \in Callers, c \in ClientIds : ReturnAgain(p, c)
AgainSpec == Init /\ [][AgainNext]_vars

ClientSpec == Init /\ [][ClientNext]_vars

\* One client whose caller may call Stop before Start, and Start again once
\* the client is no longer running. A panic ends the program.
alive == stopPc # "panic" /\ watchPc # "panic" /\ prevWatchPc # "panic"
LifecycleNext ==
    \/ alive /\ Start
    \/ alive /\ workerRespond
    \/ alive /\ workerUnsolicited
    \/ alive /\ workerStderr
    \/ alive /\ workerExit
    \/ alive /\ workerDies
    \/ alive /\ writerCancelled
    \/ alive /\ writerWrites
    \/ alive /\ readerSelect
    \/ alive /\ readerReads
    \/ alive /\ stderrSelect
    \/ alive /\ stderrReads
    \/ alive /\ watcherWaits
    \/ alive /\ watcherUpdates
    \/ alive /\ watcherPublishes
    \/ alive /\ watcherCloses
    \/ alive /\ stopCancels
    \/ alive /\ stopReceives
    \/ alive /\ execute1
    \/ alive /\ sendReceives
    \/ alive /\ sendTimesOut
    \/ alive /\ StartAgain
    \/ alive /\ prevWatcherCloses
    \/ alive /\ stopNeverStarted
LifecycleSpec == Init /\ [][LifecycleNext]_vars

\* The Go scheduler runs every goroutine that can take a step and every timer
\* fires; the worker is taken to exit once its stdin is closed.
FairClientSpec ==
    /\ ClientSpec
    /\ WF_vars(writerCancelled)
    /\ WF_vars(writerWrites)
    /\ WF_vars(readerSelect)
    /\ WF_vars(readerReads)
    /\ WF_vars(stderrSelect)
    /\ WF_vars(stderrReads)
    /\ WF_vars(watcherWaits)
    /\ WF_vars(watcherUpdates)
    /\ WF_vars(watcherPublishes)
    /\ WF_vars(watcherCloses)
    /\ WF_vars(stopReceives)
    /\ WF_vars(sendReceives)
    /\ WF_vars(sendTimesOut)
    /\ WF_vars(workerRespond)
    /\ WF_vars(workerExit)

(***************************************************************************)
(* Properties of the pool                                                  *)
(***************************************************************************)
\* How many places hold client c: positions on the idle stack, callers that
\* have been handed it, and calls of Get that are about to hand it out.
Places(c) ==
    Cardinality({i \in 1..Len(clients) : clients[i] = c})
      + held[c]
      + Cardinality({p \in Callers : got[p] = c})

C3_PopulationIsIdlePlusCheckedOut ==
    isOpen => numClients = Len(clients) + Cardinality(CheckedOut)

\* C4: a Get called after Close returns no client and the pool-closed error.
C4_ClosedGetFailsWithPoolClosed ==
    [][\A p \in Callers :
          (afterClose[p] /\ pc[p] # "idle" /\ pc'[p] = "idle")
             => (ret'[p] = "errPoolClosed" /\ held' = held)]_vars

\* C5: Return to a closed pool stops the client, does not put it on the idle
\* stack, and returns nil.
C5_ClosedReturnStops ==
    [][\A c \in ClientIds :
          (~isOpen /\ held'[c] < held[c])
             => /\ ~isRunning'[c]
                /\ c \notin {clients'[i] : i \in 1..Len(clients')}
                /\ \A p \in Callers : ret'[p] # ret[p] => ret'[p] = "nil"]_vars

\* C5 witness: the pool is closed while a caller holds a running client, and
\* a caller is free to return it.
C5_Witness ==
    /\ ~isOpen
    /\ \E c \in ClientIds : held[c] > 0 /\ isRunning[c]
    /\ \E p \in Callers : pc[p] = "idle"

\* C6: a tick of the reaper stops no client that is checked out.
C6_ReaperSparesCheckedOut ==
    [][checkClients => \A c \in CheckedOut : isRunning'[c] = isRunning[c]]_vars

\* C6 witness: the reaper is about to tick with an idle client to discard,
\* while a checked-out client is running past the pool's limits.
C6_Witness ==
    /\ isOpen /\ reaperPc = "running"
    /\ \E c \in ClientIds : held[c] > 0 /\ isRunning[c] /\ tooOld[c] /\ tooIdle[c]
    /\ \E d \in Idle : isRunning[d] /\ discard(d)

\* C7: no client is in two places at once: handed to two callers, or handed
\* to a caller while it is on the idle stack or being handed out by a Get.
C7_OneHolder == \A c \in ClientIds : Places(c) <= 1

\* C7 witness: a client that has been used and returned is popped by a Get
\* while another client is held.
C7_Witness ==
    \E p \in Callers :
        /\ got[p] # Nil /\ isRunning[got[p]] /\ ~tooIdle[got[p]]
        /\ \E d \in ClientIds : d # got[p] /\ held[d] = 1

(***************************************************************************)
(* Properties of one client                                                *)
(***************************************************************************)
\* C8: Stop called twice on a started client returns the same terminal error
\* both times, whatever the worker's exit status.
C8_StopIdempotent ==
    Len(stopResults) >= 2 => stopResults[2] = stopResults[1]

\* C9: a call of Stop returns, with the goroutines scheduled fairly and the
\* worker exiting once its stdin is closed.
C9_StopReturns == (stopPc = "recv") ~> (stopPc = "idle")

\* C10: with the worker writing one line per request, in order, each call of
\* execute that returns a response returns the one produced for its request.
C10_FifoPairing ==
    unsolicited = 0 =>
        \A i \in 1..Len(results) :
            results[i].err = "nil" => results[i].line = results[i].req

\* C10 witness: two requests, one after the other, have both been answered.
C10_Witness ==
    /\ unsolicited = 0
    /\ Len(results) = 2
    /\ results[1] = [req |-> 1, line |-> 1, err |-> "nil"]
    /\ results[2] = [req |-> 2, line |-> 2, err |-> "nil"]

\* C11: if the worker exits on its own while execute waits for a response,
\* execute returns, with the goroutines scheduled fairly and the response
\* timeout firing.
C11_DeadWorkerUnwedges == (execPc = "wait" /\ worker = "exited") ~> (execPc = "idle")

\* C12: while the worker is running, a call of execute that is waiting for its
\* response returns only with that response and no error, and the expiry of
\* the response timeout changes neither the worker, its pipes, the request
\* nor the caller's place.
C12_TimeoutKeepsWaiting ==
    [][(execPc = "wait" /\ worker = "running") =>
          /\ results' # results =>
                results' = Append(results, [req |-> request, line |-> outLine,
                                            err |-> "nil"])
          /\ sendTimesOut =>
                UNCHANGED <<execPc, request, worker, stdin, stdout, ctxDone,
                            running>>]_vars

\* C12 witness: execute is waiting on a request the running worker has not
\* answered yet, so that the response timeout can expire.
C12_Witness ==
    /\ execPc = "wait" /\ worker = "running" /\ running
    /\ stdin = <<request>> /\ stdout = <<>> /\ outPc = "read"

\* C13: execute on a client that is not running returns the client-stopped
\* error at once: the caller does not go on to send, no request is made and
\* the activity time is left as it was.
C13_StoppedExecuteFails ==
    [][(execPc = "idle" /\ ~running) =>
          /\ execPc' = "idle"
          /\ request' = request
          /\ activityTime' = activityTime
          /\ stdin' = stdin
          /\ results' # results =>
                results' = Append(results, [req |-> 0, line |-> 0,
                                            err |-> "client is not running"])]_vars

\* C13 witness: the client served a request, was stopped, and a later execute
\* failed.
C13_Witness ==
    /\ started /\ ~running /\ activityTime = 1 /\ request = 1
    /\ Len(results) = 2
    /\ results[1].err = "nil"
    /\ results[2].err = "client is not running"

\* C14: a client that Get hands out is running and its worker process is alive.
C14_GetReturnsLiveClient ==
    [][\A p \in Callers :
          (pc[p] = "checkRunning" /\ pc'[p] = "idle" /\ ret'[p] = "nil")
             => (isRunning[got[p]] /\ got[p] \notin crashed)]_vars

\* Every client spawned so far is checked out and none has been given back.
NoReturn ==
    /\ isOpen
    /\ clients = <<>>
    /\ numClients = spawned
    /\ \A c \in 1..spawned : Places(c) = 1

C17_ReturnNeverFails ==
    [][\A p \in Callers, c \in ClientIds :
          (Return(p, c) \/ ReturnAgain(p, c)) => ret'[p] = "nil"]_vars

\* C18: Start on a running client returns the already-running error and
\* changes nothing of the client: the flag, the pid, the worker, the
\* goroutines and the channels.
C18_StartWhenRunningFails ==
    [][(running /\ Start) =>
          /\ startRet' = "client is already running"
          /\ UNCHANGED <<started, pid, running, ctxDone, processVars, taskVars>>]_vars

\* C18 witness: Start has been refused on a client whose worker is running.
C18_Witness ==
    /\ running /\ worker = "running" /\ pid = 1
    /\ startRet = "client is already running"

C20_RunningIffWorkerAlive ==
    /\ [](running => (started /\ worker # "none"))
    /\ (worker = "exited") ~> (~running)

\* C21: a closed pool never reopens: no step takes the pool from closed to
\* open.
C21_ClosedStaysClosed == [][~isOpen => ~isOpen']_vars

\* C21 witness: after Close, the reaper has ended, a Get has failed and a
\* client has been returned and stopped.
C21_Witness ==
    /\ ~isOpen /\ reaperPc = "done"
    /\ \E p \in Callers : pc[p] = "idle" /\ ret[p] = errAfterTries
    /\ \E c \in 1..spawned : ~isRunning[c] /\ held[c] = 0

C23_SpawnErrorSurfaced ==
    [][\A p \in Callers :
          (getLocked(p) /\ isOpen /\ isEmpty /\ canCreate
              /\ spawned' = spawned /\ pc'[p] = "idle")
             => ret'[p] = "errSpawn"]_vars

\* C32: Return of a running client to an open pool whose idle stack is not
\* full puts the client on top of the stack, leaves it running, returns nil
\* and leaves the population counter as it was.
C32_ReturnPushesOnTop ==
    [][\A p \in Callers, c \in ClientIds :
          (Return(p, c) /\ isOpen /\ isRunning[c] /\ Len(clients) < maxSize)
             => /\ clients' = Append(clients, c)
                /\ isRunning'[c]
                /\ ret'[p] = "nil"
                /\ numClients' = numClients]_vars

\* C32 witness: a caller that holds a running client may return it to an
\* open pool whose idle stack holds another client and is not full.
C32_Witness ==
    /\ isOpen /\ Len(clients) = 1 /\ Len(clients) < maxSize
    /\ \E p \in Callers, c \in ClientIds :
          pc[p] = "idle" /\ held[c] > 0 /\ isRunning[c] /\ c # clients[1]

\* C33: an attempt of Get in which FindAndStart fails leaves the population
\* counter, the idle stack and the open flag as they were, so the pool can
\* still create a client; and whenever FindAndStart succeeds, whatever failed
\* before, the attempt yields the new, running client.
C33_SpawnFailureLeavesPool ==
    [][\A p \in Callers :
          (getLocked(p) /\ isOpen /\ isEmpty /\ canCreate)
             => /\ spawned' = spawned
                   => /\ numClients' = numClients
                      /\ clients' = clients
                      /\ isOpen' = isOpen
                      /\ canCreate'
                /\ spawned' # spawned
                   => /\ pc'[p] = "checkRunning"
                      /\ got'[p] = spawned'
                      /\ isRunning'[got'[p]]
                      /\ numClients' = numClients + 1]_vars

\* C33 witness: a Get has failed with every attempt used up while the pool
\* was open, empty and below its size, and a second Get is about to try to
\* create a client.
C33_Witness ==
    /\ isOpen /\ clients = <<>> /\ numClients = 0 /\ spawned = 0
    /\ reaperPc = "running"
    /\ ret["g1"] = errAfterTries /\ pc["g1"] = "idle"
    /\ pc["g2"] = "getWithTimeout"

\* C34: Close on an open pool closes it, empties the idle stack and stops
\* every client that was on it; it does not touch the clients that are
\* checked out, and each of those is stopped when it is returned.
C34_CloseStopsIdle ==
    [][/\ \A p \in Callers :
            (Close(p) /\ isOpen)
               => /\ ~isOpen'
                  /\ clients' = <<>>
                  /\ \A c \in Idle : ~isRunning'[c]
                  /\ \A c \in CheckedOut \ Idle : isRunning'[c] = isRunning[c]
       /\ \A p \in Callers, c \in ClientIds :
            (Return(p, c) /\ ~isOpen) => (~isRunning'[c] /\ clients' = <<>>)]_vars

\* C34 witness: the pool has been closed while one running client was idle
\* and another checked out: the idle one is stopped, the other still runs.
C34_Witness ==
    /\ ~isOpen /\ clients = <<>> /\ numClients = 2
    /\ \E c, d \in 1..spawned :
          /\ ~isRunning[c] /\ held[c] = 0
          /\ isRunning[d] /\ held[d] > 0

\* C35: from the moment execute has accepted a request, while the request
\* is handed to the writer and until its response is returned, the activity
\* time of the client is the time of that request.
C35_ActivityBeforeSend ==
    /\ execPc \in {"send", "wait"} => (request > 0 /\ activityTime = request)
    /\ \A i \in 1..Len(results) :
          results[i].err = "nil" => activityTime >= results[i].req

\* C35 witness: the second request has been accepted and not yet handed to
\* the writer; the response to the first has been returned.
C35_Witness ==
    /\ execPc = "send" /\ request = 2 /\ activityTime = 2
    /\ Len(results) = 1 /\ results[1].err = "nil" /\ results[1].req = 1

\* C37: Stop on a client that has never been started returns nil and leaves
\* the client not running.
C37_StopNeverStartedReturns ==
    [][(~started /\ stopPc = "idle" /\ stopPc' # "idle")
          => FALSE]_vars

\* C39: once a client has been started again, the watcher of its first run
\* neither sends on nor closes the error channel of the second run, and Stop
\* returns only when the second worker has exited, with that worker's error
\* if the channel holds one.
C39_RestartKeepsErrChannel ==
    [][/\ (pid > 1 /\ prevWatchPc' # prevWatchPc /\ pid' = pid)
            => UNCHANGED <<errChan, errClosed>>
       /\ (pid > 1 /\ stopReceives)
            => /\ worker = "exited"
               /\ errChan # <<>> => Head(errChan) = exitErr]_vars

(***************************************************************************)
(* Properties of the library functions                                     *)
(***************************************************************************)
\* C31: AddMetadata(A) and RemoveMetadata(A) called twice leave the AVUs on
\* the server that the first call left, and the second call returns no
\* error, whatever AVUs of A the item had at first.
C31_MetadataIdempotent ==
    Len(result.errs) = 2 =>
        /\ result.errs[2] = nil
        /\ result.servers[3] = result.servers[2]

\* C38: the reaper keeps a running client whose runtime is at most the
\* pool's maximum and for which less than the maximum idle time has passed
\* since it last accepted a request, or since it was started if it has
\* accepted none.
C38_ReaperKeepsFreshClient ==
    called =>
        LET c == arg.client
            lastUsed == IF c.activityTime = 0 THEN c.startTime ELSE c.activityTime
        IN  (/\ c.isRunning
             /\ arg.now - c.startTime <= arg.pool.maxClientRuntime
             /\ arg.now - lastUsed < arg.pool.maxClientIdleTime)
               => result = "kept"

(***************************************************************************)
(* Properties of the library functions (continued)                         *)
(***************************************************************************)
\* C24: a response envelope with both an error and a result, or with neither,
\* is rejected as malformed: no items, and an error that is not a RodsError.
C24_ExactlyOneOf ==
    called =>
        LET both == arg.ErrorMsg # nil /\ arg.Result # nil
            neither == arg.ErrorMsg = nil /\ arg.Result = nil
        IN  (both \/ neither) =>
                /\ result.items = <<>>
                /\ result.err.type = "fundamental"
                /\ ~IsRodsError(result.err)

\* C25: the error returned for a response that carries an error is a
\* RodsError whose code is the code of the response, also when it is wrapped
\* once more; any other error has no code.
C25_ErrorCodeSurvives ==
    called =>
        /\ arg.ErrorMsg # nil =>
              /\ IsRodsError(result.err)
              /\ RodsErrorCode(result.err) = [code |-> arg.ErrorMsg.Code, err |-> nil]
              /\ IsRodsError(Wrapf(result.err, "list failed"))
              /\ RodsErrorCode(Wrapf(result.err, "list failed"))
                    = [code |-> arg.ErrorMsg.Code, err |-> nil]
        /\ (arg.ErrorMsg = nil /\ result.err # nil) =>
              /\ ~IsRodsError(result.err)
              /\ RodsErrorCode(result.err).err # nil

\* C25 witness: a response with the least int32 as its error code has been
\* unwrapped.
C25_Witness ==
    /\ called
    /\ arg.ErrorMsg # nil /\ arg.ErrorMsg.Code = -2147483647 - 1
    /\ arg.Result = nil
    /\ result.err.type = "withMessage"

\* a comes no later than b: collections before data objects, collections by
\* path, data objects by path and then name.
inOrder(a, b) ==
    IF IsCollection(a) # IsCollection(b) THEN IsCollection(a)
    ELSE IF IsCollection(a) THEN a.IPath <= b.IPath
    ELSE a.IPath < b.IPath \/ (a.IPath = b.IPath /\ a.IName <= b.IName)
itemsOrdered(items) ==
    \A i, j \in 1..Len(items) : i < j => inOrder(items[i], items[j])
\* s and t hold the same items (by path and name) the same number of times.
sameItems(s, t) ==
    /\ Len(s) = Len(t)
    /\ \A x \in RodsItems :
          Cardinality({i \in 1..Len(s) : s[i].IPath = x.IPath /\ s[i].IName = x.IName})
            = Cardinality({i \in 1..Len(t) : t[i].IPath = x.IPath /\ t[i].IName = x.IName})
\* The items of the result of envelope e.
itemsOf(e) == IF e.Result.List # nil THEN e.Result.List.val ELSE <<e.Result.Item.val>>

\* C26: the items unwrap returns are the items of the response, ordered, and
\* so are the contents of each of them.
C26_ItemsSorted ==
    (called /\ result.err = nil) =>
        /\ itemsOrdered(result.items)
        /\ sameItems(result.items, itemsOf(arg))
        /\ \A i \in 1..Len(result.items) :
              /\ itemsOrdered(result.items[i].IContents)
              /\ \E j \in 1..Len(itemsOf(arg)) :
                    sameItems(result.items[i].IContents, itemsOf(arg)[j].IContents)

\* C26 witness: a response listing two data objects before a collection, in
\* descending order, has been unwrapped.
C26_Witness ==
    /\ called /\ arg.ErrorMsg = nil /\ arg.Result # nil /\ arg.Result.List # nil
    /\ arg.Result.List.val = <<[IPath |-> 2, IName |-> 1, IContents |-> <<>>],
                               [IPath |-> 1, IName |-> 2, IContents |-> <<>>],
                               [IPath |-> 2, IName |-> 0, IContents |-> <<>>]>>
    /\ result.items # arg.Result.List.val

\* Every item of items, and of the contents of any of them at any depth, has
\* its client set to client.
RECURSIVE allWired(_, _)
allWired(items, client) ==
    \A i \in 1..Len(items) :
        /\ "client" \in DOMAIN items[i]
        /\ items[i].client = client
        /\ allWired(items[i].IContents, client)

\* C36: after a response has been decoded without error, every item handed
\* to the caller, at the top level or in a contents list at any depth, refers
\* to the client that decoded it.
C36_ItemsWiredToClient ==
    (called /\ result.err = nil) => allWired(result.items, Ptr("client"))

\* C40: a single-item operation, or a recursive List of a collection, whose
\* response is a result with an empty list of items returns an error and
\* does not crash.
C40_EmptyListIsAnError ==
    (/\ called
     /\ arg.op = "list" => IsCollection(arg.item)
     /\ arg.response.ErrorMsg = nil
     /\ arg.response.Result # nil
     /\ arg.response.Result.List = Ptr(<<>>))
       => (result # indexOutOfRange /\ result.err # nil)

\* s comes no later than t in lexicographic order (tuples of numbers).
lexLeq(s, t) ==
    s = t \/ \E k \in 1..Len(s) : s[k] < t[k] /\ \A j \in 1..(k - 1) : s[j] = t[j]

\* C27: the list SortAVUs leaves is in lexicographic order of attribute, value
\* and units.
C27_AVUsLexicographic ==
    called =>
        \A i \in 1..(Len(result) - 1) :
            lexLeq(<<result[i].Attr, result[i].Value, result[i].Units>>,
                   <<result[i + 1].Attr, result[i + 1].Value, result[i + 1].Units>>)

\* The key a timestamp is ordered by: the replicate number, created (a zero
\* time last), modified (a zero time last).
timestampKey(t) ==
    <<t.Replicates, IF IsZero(t.Created) THEN 1 ELSE 0, t.Created,
      IF IsZero(t.Modified) THEN 1 ELSE 0, t.Modified>>

\* C28: the list SortTimestamps leaves is ordered by replicate number, then
\* created and then modified, a zero time after a non-zero one.
C28_TimestampsOrdered ==
    called =>
        \A i \in 1..(Len(result) - 1) :
            lexLeq(timestampKey(result[i]), timestampKey(result[i + 1]))

\* s without the elements that occurred earlier in it.
firstOccurrences(s) ==
    LET first == {i \in 1..Len(s) : \A j \in 1..(i - 1) : s[j] # s[i]}
    IN  [k \in 1..Cardinality(first) |->
            s[CHOOSE i \in first : Cardinality({j \in first : j < i}) = k - 1]]

\* C29: the worker's arguments are "--unbuffered", "--no-error" and then the
\* caller's, each kept where it first occurs.
C29_ArgvFirstOccurrence ==
    called => result = firstOccurrences(<<"--unbuffered", "--no-error">> \o arg)

\* C30: FindBaton returns the baton-do of the first directory of PATH that
\* holds one, and fails when none does.
C30_FirstOnPath ==
    called =>
        LET hits == {i \in 1..Len(arg.PATH) : cleanDir(arg.PATH[i]) \in arg.files}
        IN  IF hits = {}
              THEN result.err # nil
              ELSE /\ result.err = nil
                   /\ result.path = Join(arg.PATH[CHOOSE i \in hits : \A j \in hits : i <= j])

====
